---- MODULE Spec2Model ----
(***************************************************************************)
(* Model of the Daily Reflection plugin (src/src/main.ts): settings load   *)
(* and edit, the reflection form (ReflectionModal) and the daily note      *)
(* writer (DailyReflectionPlugin.writeDailyNote) against the host's        *)
(* document store, pane manager and clock.                                 *)
(*                                                                         *)
(* Strings that the code only concatenates are TLA+ strings.  A folder     *)
(* name, which the code trims, is a sequence of pieces, each piece either  *)
(* one whitespace character or a whitespace-free chunk.  The markdown body *)
(* is the sequence of the pieces the template literals append.  Labels     *)
(* are written without their decorative symbols.                           *)
(***************************************************************************)
EXTENDS Integers, Sequences, FiniteSets, TLC

\* ---------------------------------------------------------------- bounds
MaxSessions == 2
MaxEdits == 2
MaxFields == 2
MaxTicks == 1
MaxFolderEdits == 1
\* the clock starts on 2024-03-06: 2024-01-01 is day 19723 of the epoch
StartDay == 19723 + 65

Sessions == 1..MaxSessions

\* ------------------------------------------------------- settings (data)
Q(id, label, type, choices) ==
  [id |-> id, label |-> label, type |-> type, choices |-> choices]

DEFAULT_SETTINGS ==
  [dailyFolder |-> <<"Daily">>,
   questions |-> <<
     Q("todo", "What I want to accomplish today", "text", <<>>),
     Q("yesterday", "Reflections on yesterday's to-do list & accomplishments", "text", <<>>),
     Q("dreams", "Dreams", "text", <<>>),
     Q("sleepHours", "Hours of sleep", "dropdown", <<"4", "5", "6", "7", "8", "9", "10", "11", "12">>),
     Q("sleepLowest", "Lowest heart rate", "number", <<>>),
     Q("sleepAvg", "Average heart rate", "number", <<>>),
     Q("hrv", "HRV", "number", <<>>),
     Q("sleepPattern", "Sleep pattern", "dropdown", <<"Deep", "Interrupted", "REM rich", "?">>),
     Q("food", "Food", "text", <<>>),
     Q("energy", "Energy level", "dropdown", <<"High", "Medium", "Low">>),
     Q("myday", "My Day", "text", <<>>),
     Q("sad", "What am I sad about?", "dropdown", <<"Nothing", "Work", "Relationships", "Health", "Other">>),
     Q("body", "What does my body want?", "dropdown", <<"Rest", "Exercise", "Stretch", "Hydrate", "Healthy food", "Other">>),
     Q("media", "Books / Podcasts / Media Reflection", "text", <<>>),
     Q("gratitude", "What am I grateful for?", "text", <<>>),
     Q("triggers", "Triggers / Failures", "text", <<>>) >>]

\* A persisted record is a function whose domain is the set of the keys the
\* data file holds; loadData() of a missing file gives the record of no keys.
Rec0 == [k \in {} |-> <<>>]
RecFolder(f) == [k \in {"dailyFolder"} |-> f]
RecQuestions(qs) == [k \in {"questions"} |-> qs]
RecBoth(f, qs) == [k \in {"dailyFolder", "questions"} |-> IF k = "dailyFolder" THEN f ELSE qs]

ExampleQuestions ==
  << Q("todo", "What I want to accomplish today", "text", <<>>),
     Q("dreams", "Dreams", "text", <<>>) >>

SleepQuestions ==
  << Q("energy", "Energy level", "dropdown", <<"High", "Medium", "Low">>),
     Q("hrv", "HRV", "number", <<>>),
     Q("food", "Food", "text", <<>>) >>

PersistedRecords ==
  { Rec0,
    RecFolder(<<" ", " ">>),
    RecQuestions(ExampleQuestions),
    RecBoth(<<"Journal">>, SleepQuestions) }

\* What the user may type into the folder field of the settings panel.
FolderInputs == { <<" ">>, <<" ", "My", " ", "Notes", " ">> }

\* ------------------------------------------------------ pure functions
IsSpace(c) == c \in {" ", "\t", "\n"}

\* String.prototype.trim on a sequence of pieces
RECURSIVE TrimLeft(_)
TrimLeft(s) ==
  IF s = <<>> THEN <<>>
  ELSE IF IsSpace(Head(s)) THEN TrimLeft(Tail(s)) ELSE s

RECURSIVE TrimRight(_)
TrimRight(s) ==
  IF s = <<>> THEN <<>>
  ELSE IF IsSpace(s[Len(s)]) THEN TrimRight(SubSeq(s, 1, Len(s) - 1)) ELSE s

Trim(s) == TrimRight(TrimLeft(s))

\* the string a sequence of pieces stands for
RECURSIVE Str(_)
Str(s) == IF s = <<>> THEN "" ELSE Head(s) \o Str(Tail(s))

\* value.trim() || "Daily"
FolderFromInput(value) ==
  IF Trim(value) = <<>> THEN <<"Daily">> ELSE Trim(value)

\* Object.assign with its sources in the wrong order: the defaults win
ObjectAssignDefaultsWin(defaults, persisted) ==
  [k \in DOMAIN defaults \cup DOMAIN persisted |->
     IF k \in DOMAIN defaults THEN defaults[k] ELSE persisted[k]]

\* Object.assign({}, defaults, persisted)
ObjectAssign(defaults, persisted) ==
  [k \in DOMAIN defaults \cup DOMAIN persisted |->
     IF k \in DOMAIN persisted THEN persisted[k] ELSE defaults[k]]

\* moment(): the clock is a count of days since 1970-01-01; the calendar
\* date of a day count (proleptic Gregorian calendar).
CivilFromDays(n) ==
  LET z == n + 719468
      era == z \div 146097
      doe == z - era * 146097
      yoe == (doe - (doe \div 1460) + (doe \div 36524) - (doe \div 146096)) \div 365
      doy == doe - (365 * yoe + (yoe \div 4) - (yoe \div 100))
      mp == (5 * doy + 2) \div 153
      d == doy - ((153 * mp + 2) \div 5) + 1
      m == IF mp < 10 THEN mp + 3 ELSE mp - 9
      y == yoe + era * 400 + (IF m <= 2 THEN 1 ELSE 0)
  IN [year |-> y, month |-> m, day |-> d, weekday |-> (n + 4) % 7]

Pad2(n) == IF n < 10 THEN "0" \o ToString(n) ELSE ToString(n)

WeekdayNames == <<"Sunday", "Monday", "Tuesday", "Wednesday", "Thursday", "Friday", "Saturday">>

MonthNames ==
  <<"January", "February", "March", "April", "May", "June", "July",
    "August", "September", "October", "November", "December">>

\* moment().format("YYYY-MM-DD")
FormatYMD(n) ==
  LET c == CivilFromDays(n)
  IN ToString(c.year) \o "-" \o Pad2(c.month) \o "-" \o Pad2(c.day)

\* moment().format("dddd, MMMM D YYYY")
FormatLong(n) ==
  LET c == CivilFromDays(n)
  IN WeekdayNames[c.weekday + 1] \o ", " \o MonthNames[c.month] \o " "
       \o ToString(c.day) \o " " \o ToString(c.year)

\* `${this.settings.dailyFolder}/${fileName}`
NotePath(folder, n) == Str(folder) \o "/" \o FormatYMD(n) \o ".md"

\* answers[q.id] without the ?? "" fallback, interpolated into the template
ValueOfUndefined(answers, q) ==
  IF q.id \in DOMAIN answers THEN answers[q.id] ELSE "undefined"

\* answers[q.id] ?? ""
ValueOf(answers, q) == IF q.id \in DOMAIN answers THEN answers[q.id] ELSE ""

\* md += `### ${q.label}\n${value}\n\n`
Section(answers, q) == <<"### ", q.label, "\n", ValueOf(answers, q), "\n\n">>

\* the for loop of writeDailyNote over the questions from index i on
RECURSIVE RenderFrom(_, _, _, _)
RenderFrom(md, questions, answers, i) ==
  IF i > Len(questions) THEN md
  ELSE RenderFrom(md \o Section(answers, questions[i]), questions, answers, i + 1)

\* let md = `# ${moment().format(...)}\n\n`; for (...) md += ...
Render(n, questions, answers) ==
  RenderFrom(<<"# ", FormatLong(n), "\n\n">>, questions, answers, 1)

Min(a, b) == IF a < b THEN a ELSE b

\* the values an input widget can report for a question
InputValues(q) ==
  CASE q.type = "text" -> {"Ship the spec", ""}
    [] q.type = "number" -> {"42", ""}
    [] q.type = "dropdown" ->
         {q.choices[k] : k \in 1..Len(q.choices)}

\* ---------------------------------------------------------------- state
VARIABLES
  now,          \* the wall clock, in days since 1970-01-01
  loaded,       \* onload has run
  persisted,    \* the plugin's data file
  settings,     \* DailyReflectionPlugin.settings
  folderEdits,  \* number of edits of the folder field so far
  files,        \* the vault: path -> [content, writer]
  status,       \* per form session: where the session and its write stand
  answers,      \* ReflectionModal.answers
  changes,      \* the change events the inputs of the session reported
  openDay,      \* the date shown in the form's title
  clicked,      \* the user pressed Save in the session
  submitDay,    \* the clock when the user pressed Save
  submitFolder, \* settings.dailyFolder when the user pressed Save
  submitOrder,  \* the sessions in the order their Save was pressed
  delivered,    \* the argument of each onSubmit call of the session
  path,         \* writeDailyNote: const path
  md,           \* writeDailyNote: let md
  log,          \* the calls made on behalf of the session, in order
  failedAt      \* the step of writeDailyNote that rejected, or "none"

vars ==
  <<now, loaded, persisted, settings, folderEdits, files, status, answers,
    changes, openDay, clicked, submitDay, submitFolder, submitOrder,
    delivered, path, md, log, failedAt>>

pluginVars == <<loaded, persisted, settings, folderEdits>>
userVars == <<clicked, submitDay, submitFolder, submitOrder>>
writeVars == <<files, delivered, path, md, failedAt>>

NoFiles == [p \in {} |-> [content |-> <<>>, writer |-> 0]]

Init ==
  /\ now = StartDay
  /\ loaded = FALSE
  /\ persisted \in PersistedRecords
  /\ settings = Rec0
  /\ folderEdits = 0
  /\ files = NoFiles
  /\ status = [s \in Sessions |-> "none"]
  /\ answers = [s \in Sessions |-> Rec0]
  /\ changes = [s \in Sessions |-> <<>>]
  /\ openDay = [s \in Sessions |-> 0]
  /\ clicked = [s \in Sessions |-> FALSE]
  /\ submitDay = [s \in Sessions |-> 0]
  /\ submitFolder = [s \in Sessions |-> <<>>]
  /\ submitOrder = <<>>
  /\ delivered = [s \in Sessions |-> <<>>]
  /\ path = [s \in Sessions |-> ""]
  /\ md = [s \in Sessions |-> <<>>]
  /\ log = [s \in Sessions |-> <<>>]
  /\ failedAt = [s \in Sessions |-> "none"]

\* ------------------------------------------------------- plugin, settings
\* this.settings = Object.assign({}, DEFAULT_SETTINGS, await this.loadData())
loadSettings(data) == ObjectAssign(DEFAULT_SETTINGS, data)

onload ==
  /\ ~loaded
  /\ settings' = loadSettings(persisted)
  /\ loaded' = TRUE
  /\ UNCHANGED <<now, persisted, folderEdits, files, status, answers, changes,
                 openDay, userVars, delivered, path, md, log, failedAt>>

\* the onChange handler of the folder field, saveSettings included
FolderChange(value) ==
  /\ loaded
  /\ folderEdits < MaxFolderEdits
  /\ folderEdits' = folderEdits + 1
  /\ settings' = [settings EXCEPT !.dailyFolder = FolderFromInput(value)]
  /\ persisted' = settings'
  /\ UNCHANGED <<now, loaded, files, status, answers, changes, openDay,
                 userVars, delivered, path, md, log, failedAt>>

\* the wall clock passes midnight
Tick ==
  /\ now < StartDay + MaxTicks
  /\ now' = now + 1
  /\ UNCHANGED <<pluginVars, files, status, answers, changes, openDay,
                 userVars, delivered, path, md, log, failedAt>>

\* ------------------------------------------------------------- the form
\* answers: Record<string, string> = {}
NewAnswers(s) == Rec0

\* the command callback: new ReflectionModal(...).open(), then onOpen.  The
\* form is a modal dialog: the next one opens once the previous one is
\* closed, while the writes of earlier sessions may still be in flight.
OpenModal(s) ==
  /\ loaded
  /\ status[s] = "none"
  /\ \A t \in Sessions : t < s => status[t] \notin {"none", "open"}
  /\ status' = [status EXCEPT ![s] = "open"]
  /\ answers' = [answers EXCEPT ![s] = NewAnswers(s)]
  /\ openDay' = [openDay EXCEPT ![s] = now]
  /\ UNCHANGED <<now, pluginVars, files, changes, userVars, delivered, path,
                 md, log, failedAt>>

\* an assignment that keeps the first value reported for an id
SetAnswerKeepFirst(a, id, v) == a @@ (id :> v)

\* this.answers[q.id] = v
SetAnswer(a, id, v) == (id :> v) @@ a

\* the change events reported so far, over all sessions
RECURSIVE EditsUpTo(_)
EditsUpTo(s) == IF s = 0 THEN 0 ELSE Len(changes[s]) + EditsUpTo(s - 1)
EditCount == EditsUpTo(MaxSessions)

\* the inputs of the form the user interacts with
Fields == IF loaded THEN 1..Min(Len(settings.questions), MaxFields) ELSE {}

\* input i of the form reports the value v
Change(s, i, v) ==
  /\ status[s] = "open"
  /\ EditCount < MaxEdits
  /\ answers' = [answers EXCEPT ![s] = SetAnswer(answers[s], settings.questions[i].id, v)]
  /\ changes' = [changes EXCEPT ![s] = Append(@, <<settings.questions[i].id, v>>)]
  /\ UNCHANGED <<now, pluginVars, files, status, openDay, userVars, delivered,
                 path, md, log, failedAt>>

\* the Save handler with its two calls exchanged
SaveClickCallsSwapped == <<"onSubmit", "close">>

\* the calls of the Save handler, in order: this.close(); this.onSubmit(...)
SaveClickCalls == <<"close", "onSubmit">>

\* a date captured when the form was opened
TodayAtOpen(s) == openDay[s]

\* the moment() that line 72 of writeDailyNote reads for the file name
Today(s) == now

\* writeDailyNote up to its first await, called from the completion callback
\* with the form's answer map
writeDailyNoteStart(s, a) ==
  LET p == NotePath(settings.dailyFolder, Today(s))
      existing == p \in DOMAIN files
  IN /\ path' = [path EXCEPT ![s] = p]
     /\ delivered' = [delivered EXCEPT ![s] = Append(@, a)]
     /\ IF existing
          THEN /\ md' = [md EXCEPT ![s] = Render(now, settings.questions, a)]
               /\ status' = [status EXCEPT ![s] = "modify"]
               /\ log' = [log EXCEPT ![s] = @ \o SaveClickCalls \o <<"exists", "modify">>]
          ELSE /\ md' = md
               /\ status' = [status EXCEPT ![s] = "create"]
               /\ log' = [log EXCEPT ![s] = @ \o SaveClickCalls \o <<"exists", "create">>]
     /\ UNCHANGED <<files, failedAt>>

\* the Save button's onClick
OnSaveClick(s) ==
  /\ writeDailyNoteStart(s, answers[s])
  /\ UNCHANGED <<now, pluginVars, answers, changes, openDay>>

\* an onClose that submits what was entered
OnCloseSubmitting(s) == OnSaveClick(s)

\* onClose, reached by dismissing the form
OnClose(s) ==
  /\ status' = [status EXCEPT ![s] = "dismissed"]
  /\ log' = [log EXCEPT ![s] = Append(@, "close")]
  /\ UNCHANGED <<now, pluginVars, answers, changes, openDay, writeVars>>

\* the user dismisses the form without Save
CloseModal(s) ==
  /\ status[s] = "open"
  /\ OnClose(s)
  /\ UNCHANGED userVars

\* the user presses Save
SaveClick(s) ==
  /\ status[s] = "open"
  /\ clicked' = [clicked EXCEPT ![s] = TRUE]
  /\ submitDay' = [submitDay EXCEPT ![s] = now]
  /\ submitFolder' = [submitFolder EXCEPT ![s] = settings.dailyFolder]
  /\ submitOrder' = Append(submitOrder, s)
  /\ OnSaveClick(s)

\* ------------------------------------------- writeDailyNote, after awaits
\* a writeDailyNote that catches the rejection and carries on
AfterAwaitSwallow(ok, next) == next

\* where writeDailyNote stands once an awaited call has settled
AfterAwait(ok, next) == IF ok THEN next ELSE "failed"

\* The vault's calls take effect when they settle, in any order, and each may
\* reject (ok = FALSE) leaving the vault as it was.
\* await this.app.vault.create(path, "") settles; on success the template is
\* built and vault.modify is called
CreateSettled(s, ok) ==
  /\ status[s] = "create"
  /\ failedAt' = [failedAt EXCEPT ![s] = IF ok THEN @ ELSE "create"]
  /\ files' = IF ok THEN (path[s] :> [content |-> <<>>, writer |-> s]) @@ files
                    ELSE files
  /\ status' = [status EXCEPT ![s] = AfterAwait(ok, "modify")]
  /\ IF status'[s] = "modify"
       THEN /\ md' = [md EXCEPT ![s] = Render(now, settings.questions, delivered[s][Len(delivered[s])])]
            /\ log' = [log EXCEPT ![s] = Append(@, "modify")]
       ELSE UNCHANGED <<md, log>>
  /\ UNCHANGED <<now, pluginVars, answers, changes, openDay, userVars,
                 delivered, path>>

\* await this.app.vault.modify(file, md) settles; on success the pane is
\* requested
ModifySettled(s, ok) ==
  /\ status[s] = "modify"
  /\ failedAt' = [failedAt EXCEPT ![s] = IF ok THEN @ ELSE "modify"]
  /\ files' = IF ok THEN (path[s] :> [content |-> md[s], writer |-> s]) @@ files
                    ELSE files
  /\ status' = [status EXCEPT ![s] = AfterAwait(ok, "openFile")]
  /\ IF status'[s] = "openFile"
       THEN log' = [log EXCEPT ![s] = @ \o <<"getLeaf", "openFile">>]
       ELSE UNCHANGED log
  /\ UNCHANGED <<now, pluginVars, answers, changes, openDay, userVars,
                 delivered, path, md>>

\* await leaf.openFile(file, ...) settles; on success writeDailyNote returns
\* and the callback shows the notice
OpenFileSettled(s, ok) ==
  /\ status[s] = "openFile"
  /\ failedAt' = [failedAt EXCEPT ![s] = IF ok THEN @ ELSE "openFile"]
  /\ status' = [status EXCEPT ![s] = AfterAwait(ok, "done")]
  /\ IF status'[s] = "done"
       THEN log' = [log EXCEPT ![s] = Append(@, "notice")]
       ELSE UNCHANGED log
  /\ UNCHANGED <<now, pluginVars, files, answers, changes, openDay, userVars,
                 delivered, path, md>>

Next ==
  \/ onload
  \/ Tick
  \/ \E value \in FolderInputs : FolderChange(value)
  \/ \E s \in Sessions : OpenModal(s)
  \/ \E s \in Sessions, i \in Fields :
       \E v \in InputValues(settings.questions[i]) : Change(s, i, v)
  \/ \E s \in Sessions : CloseModal(s)
  \/ \E s \in Sessions : SaveClick(s)
  \/ \E s \in Sessions, ok \in BOOLEAN : CreateSettled(s, ok)
  \/ \E s \in Sessions, ok \in BOOLEAN : ModifySettled(s, ok)
  \/ \E s \in Sessions, ok \in BOOLEAN : OpenFileSettled(s, ok)

Spec == Init /\ [][Next]_vars

\* ================================================================ claims
Count(seq, e) == Cardinality({k \in 1..Len(seq) : seq[k] = e})
Has(seq, e) == \E k \in 1..Len(seq) : seq[k] = e
Pos(seq, e) == IF Has(seq, e) THEN CHOOSE k \in 1..Len(seq) : seq[k] = e /\ \A j \in 1..(k - 1) : seq[j] # e ELSE 0
Days == StartDay..(StartDay + MaxTicks)
StoreCalls == {"exists", "create", "modify", "getLeaf", "openFile"}
Closed(s) == status[s] \notin {"none", "open"}
SubmittedBefore(a, b) == Has(submitOrder, a) /\ Has(submitOrder, b) /\ Pos(submitOrder, a) < Pos(submitOrder, b)

\* C1: when two submissions of the same calendar day have both finished
\* writing the same note, the note holds the rendering of the answers that
\* were submitted second.
C1_LastWriterWins ==
  \A a, b \in Sessions :
    ( /\ SubmittedBefore(a, b)
      /\ status[a] = "done" /\ status[b] = "done"
      /\ submitDay[a] = now /\ submitDay[b] = now
      /\ path[a] = path[b] )
    => files[path[b]].content = Render(now, settings.questions, delivered[b][1])

\* C2: a session closed without Save never calls the completion callback,
\* never touches the document store and never requests a pane.
C2_NoSubmitWithoutSave ==
  \A s \in Sessions :
    (Closed(s) /\ ~clicked[s])
    => /\ delivered[s] = <<>>
       /\ ~Has(log[s], "onSubmit")
       /\ \A c \in StoreCalls : ~Has(log[s], c)
       /\ \A p \in DOMAIN files : files[p].writer # s

C2_Witness ==
  \E s \in Sessions : status[s] = "dismissed" /\ ~clicked[s] /\ Len(changes[s]) >= 2

\* C3 (as stated): on Save the callback is invoked exactly once with the
\* answer map and the form is dismissed only after that invocation.
C3_SubmitThenClose ==
  \A s \in Sessions :
    clicked[s]
    => /\ delivered[s] = <<answers[s]>>
       /\ Pos(log[s], "onSubmit") < Pos(log[s], "close")

\* C3 (amended): on Save the form is dismissed first and the callback is
\* then invoked, exactly once per session, with the accumulated answer map;
\* a session without Save has no invocation.
C3_CloseThenSubmitOnce ==
  \A s \in Sessions :
    /\ Count(log[s], "onSubmit") = Len(delivered[s])
    /\ Len(delivered[s]) = IF clicked[s] THEN 1 ELSE 0
    /\ clicked[s]
       => /\ delivered[s] = <<answers[s]>>
          /\ Count(log[s], "close") = 1
          /\ Pos(log[s], "close") < Pos(log[s], "onSubmit")

C3_Witness ==
  \E s \in Sessions : clicked[s] /\ status[s] = "done" /\ DOMAIN answers[s] # {}

\* C4: the body written is the date heading followed by exactly one section
\* per configured question, in settings order, holding the answer stored
\* under the question's id or the empty string when there is none.
C4_OneSectionPerQuestion ==
  \A s \in Sessions :
    md[s] # <<>>
    => LET qs == settings.questions
           a == delivered[s][1]
       IN /\ Len(md[s]) = 3 + 5 * Len(qs)
          /\ md[s][1] = "# " /\ md[s][3] = "\n\n"
          /\ \E d \in Days : md[s][2] = FormatLong(d)
          /\ Count(md[s], "### ") = Len(qs)
          /\ \A i \in 1..Len(qs) :
               /\ md[s][5 * i - 1] = "### "
               /\ md[s][5 * i] = qs[i].label
               /\ md[s][5 * i + 1] = "\n"
               /\ md[s][5 * i + 2] = (IF qs[i].id \in DOMAIN a THEN a[qs[i].id] ELSE "")
               /\ md[s][5 * i + 3] = "\n\n"
          /\ \A p \in DOMAIN files :
               (files[p].writer = s /\ files[p].content # <<>>) => files[p].content = md[s]

C4_Witness ==
  \E s \in Sessions :
    /\ status[s] = "done"
    /\ Len(settings.questions) >= 2
    /\ DOMAIN delivered[s][1] = {settings.questions[2].id}
    /\ files[path[s]] = [content |-> md[s], writer |-> s]

\* C5: the answer map's keys are the ids whose input reported a change in
\* the session, each with the last value reported; a session starts empty,
\* and a submission without interaction delivers the empty map.
ReportedIds(s) == {changes[s][k][1] : k \in 1..Len(changes[s])}
LastReport(s, id) ==
  LET k == CHOOSE j \in 1..Len(changes[s]) :
             /\ changes[s][j][1] = id
             /\ \A m \in (j + 1)..Len(changes[s]) : changes[s][m][1] # id
  IN changes[s][k][2]

C5_AnswersAreLastReports ==
  \A s \in Sessions :
    /\ DOMAIN answers[s] = ReportedIds(s)
    /\ \A id \in ReportedIds(s) : answers[s][id] = LastReport(s, id)
    /\ (clicked[s] /\ changes[s] = <<>>) => delivered[s] = <<Rec0>>

C5_Witness ==
  \E s \in Sessions :
    /\ clicked[s]
    /\ Len(changes[s]) = 2
    /\ changes[s][1][1] = changes[s][2][1]
    /\ changes[s][1][2] # changes[s][2][2]

\* C6: the note written is '{dailyFolder}/{YYYY-MM-DD}.md' for the date at
\* the moment of the write, not the date the form was opened on, and no
\* other note is touched by the session.
C6_PathIsWriteDay ==
  \A s \in Sessions :
    /\ clicked[s] => path[s] = NotePath(submitFolder[s], submitDay[s])
    /\ \A p \in DOMAIN files :
         files[p].writer = s
         => p = Str(submitFolder[s]) \o "/" \o FormatYMD(submitDay[s]) \o ".md"

C6_Witness ==
  \E s \in Sessions :
    /\ openDay[s] < submitDay[s]
    /\ path[s] = "Daily/2024-03-07.md"
    /\ status[s] = "done"
    /\ "Daily/2024-03-06.md" \in DOMAIN files
    /\ files["Daily/2024-03-06.md"].writer # s
    /\ files["Daily/2024-03-06.md"].content # <<>>

\* C7: after loadSettings each top-level key absent from the persisted
\* record has the default's value and each key present has the persisted
\* value in its entirety.
C7_ShallowMerge ==
  loaded
  => /\ DOMAIN settings = {"dailyFolder", "questions"}
     /\ \A k \in {"dailyFolder", "questions"} :
          settings[k] = IF k \in DOMAIN persisted THEN persisted[k] ELSE DEFAULT_SETTINGS[k]

C7_Witness ==
  /\ loaded
  /\ DOMAIN persisted = {"questions"}
  /\ settings.questions = ExampleQuestions
  /\ settings.dailyFolder = <<"Daily">>

\* C8: after activation and after every edit of the folder field,
\* settings.dailyFolder is a non-empty trimmed string.
C8_FolderNeverBlank ==
  loaded
  => /\ settings.dailyFolder # <<>>
     /\ Trim(settings.dailyFolder) = settings.dailyFolder

\* C9: a failed create or modify ends writeDailyNote: no step is retried,
\* no later step runs and no notice is shown; a failed pane-open leaves the
\* note persisted with the body the invocation wrote.
C9_FailureEndsWrite ==
  \A s \in Sessions :
    /\ \A c \in StoreCalls : Count(log[s], c) <= 1
    /\ failedAt[s] # "none" => (status[s] = "failed" /\ ~Has(log[s], "notice"))
    /\ failedAt[s] = "create"
       => (~Has(log[s], "modify") /\ ~Has(log[s], "openFile") /\ md[s] = <<>>)
    /\ failedAt[s] = "modify"
       => (~Has(log[s], "getLeaf") /\ ~Has(log[s], "openFile"))
    /\ failedAt[s] = "openFile"
       => /\ path[s] \in DOMAIN files
          /\ files[path[s]].writer = s => files[path[s]].content = md[s]

C9_Witness ==
  \E s, t \in Sessions :
    /\ failedAt[s] = "create"
    /\ failedAt[t] = "openFile"
    /\ files[path[t]] = [content |-> md[t], writer |-> t]

\* C10: the day in the heading of a note is the day in its file name.
C10_HeadingDayIsFileDay ==
  \A s \in Sessions :
    md[s] # <<>>
    => \E d \in Days :
         /\ md[s][2] = FormatLong(d)
         /\ path[s] = NotePath(submitFolder[s], d)

====
